---- MODULE Spec2Model ----
(***************************************************************************)
(* Model of src/src/main.ts: a grid of markers pulled toward the pointer,  *)
(* animated by requestAnimationFrame callbacks.                            *)
(*                                                                         *)
(* Numbers.  The program computes in IEEE doubles.  The model computes in  *)
(* fixed point: a displacement is an integer number of units of 1e-4 px   *)
(* (UNIT units per pixel), every product with a fraction is rounded to the *)
(* nearest unit, and a distance is an integer number of 1/DU px.  Pointer  *)
(* and viewport coordinates are whole pixels.                              *)
(***************************************************************************)
EXTENDS Integers, Sequences, FiniteSets, TLC

\* ---------------------------------------------------------------- constants
CELL_SIZE == 50
PULL_DISTANCE == 600
\* PULL_STRENGTH = 0.4 = PULL_STRENGTH_NUM / PULL_STRENGTH_DEN
PULL_STRENGTH_NUM == 2
PULL_STRENGTH_DEN == 5
\* EPSILON = 0.01 px, in units of 1e-4 px
EPSILON == 100
\* units per pixel
UNIT == 100 * EPSILON
\* distance resolution: a distance is counted in 1/DU px
DU == UNIT \div 1000
\* the easing factor 0.2 of "(targetX - point.offsetX) * 0.2"
EASE_NUM == 1
EASE_DEN == 5
\* const decay = 0.9
DECAY_NUM == 9
DECAY_DEN == 10

\* ------------------------------------------------------------------- bounds
\* number of input events (mousemove, touchstart, resize) in a behaviour
MaxEvents == 2
\* pointer positions (clientX, clientY) an event may carry
Pointers ==
  { <<25, 25>>, <<382, 501>>, <<1000, 25>> }
\* viewport sizes (innerWidth, innerHeight)
Viewports ==
  { <<0, 0>>, <<40, 30>> }
\* touch lists of a touchstart event
TouchLists ==
  { <<>> } \cup { <<p>> : p \in Pointers }
           \cup { <<p, q>> : p \in {<<382, 501>>}, q \in {<<25, 25>>} }
\* viewport sizes of the grid-construction specification
GridViewports ==
  { <<w, h>> : w \in {0, 49, 50, 51, 1000}, h \in {0, 50, 99, 800} }
\* number of resize events in a behaviour of the grid-construction specification
MaxGridEvents == 1
\* number of input events in a behaviour of the single-marker specification
MaxPullEvents == 3
\* pointer positions of the single-marker specification: the marker's centre
\* and a position out of pull range
PullPointers ==
  { <<25, 25>>, <<1000, 25>> }

\* ------------------------------------------------------------------ helpers
Abs(n) == IF n < 0 THEN -n ELSE n

\* n / d rounded to the nearest integer, ties away from zero (d > 0)
Round(n, d) ==
  IF n >= 0 THEN (2 * n + d) \div (2 * d) ELSE -((2 * (-n) + d) \div (2 * d))

\* Math.floor in place of Math.ceil
Ceil_Floor(n, d) == n \div d

\* Math.ceil(n / d) for n >= 0, d > 0
Ceil(n, d) == (n + d - 1) \div d

RECURSIVE SqrtSearch(_, _, _)
SqrtSearch(v, lo, hi) ==
  IF lo >= hi THEN lo
  ELSE LET mid == (lo + hi + 1) \div 2
       IN IF mid * mid <= v THEN SqrtSearch(v, mid, hi)
                            ELSE SqrtSearch(v, lo, mid - 1)

\* floor of the square root of v, 0 <= v < 2^31
ISqrt(v) == SqrtSearch(v, 0, 46340)

RECURSIVE Gcd(_, _)
Gcd(a, b) == IF b = 0 THEN a ELSE Gcd(b, a % b)

\* String(number): sign, integer part, fraction (in units)
NumToString(n) ==
  << IF n < 0 THEN "-" ELSE "", Abs(n) \div UNIT, Abs(n) % UNIT >>

\* parseFloat of a string produced by NumToString
ParseFloat(s) ==
  (IF s[1] = "-" THEN -1 ELSE 1) * (s[2] * UNIT + s[3])

\* an attribute or style property that was never set
Undefined == << >>

\* dataset[key] || '0'
OrZero(s) == IF s = Undefined THEN NumToString(0) ELSE s


\* -------------------------------------------------------------------- state
VARIABLES
  innerWidth,   \* window.innerWidth
  innerHeight,  \* window.innerHeight
  mouseX,       \* let mouseX
  mouseY,       \* let mouseY
  lastMouseX,   \* let lastMouseX
  lastMouseY,   \* let lastMouseY
  isAnimating,  \* let isAnimating
  rafId,        \* let rafId
  pending,      \* handles of the animation-frame callbacks not yet run
  gridPoints,   \* const gridPoints: sequence of GridPoint records
  children,     \* child list of gridContainer: sequence of element ids
  dom,          \* the live elements: element id -> its properties
  generation,   \* number of generateGrid calls so far
  nextElement,  \* number of elements created so far
  nEvents,      \* number of input events so far
  hist          \* the last operation and the state it started from

vars ==
  << innerWidth, innerHeight, mouseX, mouseY, lastMouseX, lastMouseY,
     isAnimating, rafId, pending, gridPoints, children, dom, generation,
     nextElement, nEvents, hist >>

\* the program state, as one record (the snapshot kept in hist.pre), with
\* the operation that led to it
Snapshot ==
  [ op |-> hist.op,
    mouseX |-> mouseX, mouseY |-> mouseY,
    lastMouseX |-> lastMouseX, lastMouseY |-> lastMouseY,
    isAnimating |-> isAnimating, rafId |-> rafId, pending |-> pending,
    gridPoints |-> gridPoints, children |-> children, dom |-> dom,
    generation |-> generation ]

Range(f) == { f[i] : i \in DOMAIN f }

\* ----------------------------------------------------------------- the DOM
\* document.createElement: the id of a new element, n elements having been
\* created before it
CreateElement(n) == n + 1

\* the elements still referenced by the container or by a grid point; the
\* others are unreachable and collected
Live(d, ch, pts) ==
  LET keep == Range(ch) \cup { pts[i].element : i \in DOMAIN pts }
  IN [ e \in (DOMAIN d) \cap keep |-> d[e] ]

\* requestAnimationFrame: a handle that no pending callback has and that
\* differs from the handle held in rafId (handles are never reused, and 0
\* is not a handle)
RECURSIVE HandleFrom(_, _, _)
HandleFrom(pend, held, n) ==
  IF n \in pend \/ n = held THEN HandleFrom(pend, held, n + 1) ELSE n

RequestAnimationFrame(pend, held) == HandleFrom(pend, held, 1)

\* ------------------------------------------------------------ generateGrid
\* The two nested for loops; st is [row, col, pts, ch, d, n]: the loop
\* variables, the grid points, the container's children, the elements and
\* the number of elements created.
\* "for (let col = 0; col < colMax; col++)" and its body, from st.col on
RECURSIVE ColLoop(_, _, _)
ColLoop(colMax, gen, st) ==
  IF st.col >= colMax THEN st
  ELSE
    LET x == st.col * CELL_SIZE
        y == st.row * CELL_SIZE
        element == CreateElement(st.n)
        props == [ left |-> x, top |-> y, transform |-> Undefined,
                   ox |-> Undefined, oy |-> Undefined, gen |-> gen ]
        point == [ x |-> x, y |-> y, offsetX |-> 0, offsetY |-> 0,
                   element |-> element ]
    IN ColLoop(colMax, gen,
               [ st EXCEPT !.col = st.col + 1,
                           !.pts = Append(st.pts, point),
                           !.ch = Append(st.ch, element),
                           !.d = (element :> props) @@ st.d,
                           !.n = element ])

\* "for (let row = 0; row < rowMax; row++)", from st.row on
RECURSIVE GridLoop(_, _, _, _)
GridLoop(rowMax, colMax, gen, st) ==
  IF st.row >= rowMax THEN st
  ELSE LET done == ColLoop(colMax, gen, [ st EXCEPT !.col = 0 ])
       IN GridLoop(rowMax, colMax, gen, [ done EXCEPT !.row = st.row + 1 ])

\* function generateGrid(), the viewport being w x h; st is [pts, ch, d, n]
GenerateGrid(w, h, gen, st) ==
  LET rowMax == Ceil(h, CELL_SIZE) + 1
      colMax == Ceil(w, CELL_SIZE) + 1
      end == GridLoop(rowMax, colMax, gen,
                      [ row |-> 0, col |-> 0, pts |-> st.pts, ch |-> st.ch,
                        d |-> st.d, n |-> st.n ])
  IN [ pts |-> end.pts, ch |-> end.ch, d |-> end.d, n |-> end.n ]

EmptyGrid == [ pts |-> << >>, ch |-> << >>, d |-> << >>, n |-> 0 ]

\* ------------------------------------------------------------------ animate
\* Math.sqrt(dx * dx + dy * dy), in 1/DU px
Distance(dx, dy) == ISqrt(DU * DU * (dx * dx + dy * dy))

\* distance < PULL_DISTANCE
InRange(distance) == distance < PULL_DISTANCE * DU

\* UNIT * CELL_SIZE * PULL_STRENGTH / PULL_DISTANCE in lowest terms
TargetGcd ==
  Gcd(UNIT * CELL_SIZE * PULL_STRENGTH_NUM, PULL_DISTANCE * PULL_STRENGTH_DEN)

TargetNum == (UNIT * CELL_SIZE * PULL_STRENGTH_NUM) \div TargetGcd

TargetDen == (PULL_DISTANCE * PULL_STRENGTH_DEN) \div TargetGcd

\* the target with the pointer on the centre taken to be no pull at all
TargetX_NoCentre(dx, dy, distance) ==
  IF ~InRange(distance) \/ (dx = 0 /\ dy = 0) THEN 0
  ELSE Round(TargetNum * dx * (PULL_DISTANCE * DU - distance),
             TargetDen * distance)

\* Math.cos(angle) * force * CELL_SIZE, in units, where angle is
\* Math.atan2(dy, dx) and force is (1 - distance / PULL_DISTANCE) *
\* PULL_STRENGTH: cos(angle) is dx / distance, and 1 for dx = dy = 0
\* because atan2(0, 0) is 0
TargetX(dx, dy, distance) ==
  IF ~InRange(distance) THEN 0
  ELSE IF dx = 0 /\ dy = 0
    THEN Round(UNIT * CELL_SIZE * PULL_STRENGTH_NUM, PULL_STRENGTH_DEN)
    ELSE Round(TargetNum * dx * (PULL_DISTANCE * DU - distance),
               TargetDen * distance)

\* Math.sin(angle) * force * CELL_SIZE, in units: sin(angle) is
\* dy / distance, and 0 for dx = dy = 0
TargetY(dx, dy, distance) ==
  IF ~InRange(distance) THEN 0
  ELSE IF dx = 0 /\ dy = 0
    THEN 0
    ELSE Round(TargetNum * dy * (PULL_DISTANCE * DU - distance),
               TargetDen * distance)

\* Math.abs(mouseX - lastMouseX) > EPSILON || Math.abs(mouseY - lastMouseY) > EPSILON
MouseMoved(mx, my, lmx, lmy) ==
  \/ Abs(mx - lmx) * UNIT > EPSILON
  \/ Abs(my - lmy) * UNIT > EPSILON

\* the settle-skip test without "mouseMoved ||"
NeedsUpdate_NoMove(mouseMoved, point) ==
  \/ Abs(point.offsetX) > EPSILON
  \/ Abs(point.offsetY) > EPSILON

\* the settle-skip test without the offsetY term
NeedsUpdate_XOnly(mouseMoved, point) ==
  \/ mouseMoved
  \/ Abs(point.offsetX) > EPSILON

\* the update made unconditional
NeedsUpdate_Always(mouseMoved, point) == TRUE

\* the condition of "if (mouseMoved || |offsetX| > EPSILON || |offsetY| > EPSILON)"
NeedsUpdate(mouseMoved, point) ==
  \/ mouseMoved
  \/ Abs(point.offsetX) > EPSILON
  \/ Abs(point.offsetY) > EPSILON

\* the easing without "- point.offsetX": offset + target * 0.2
Ease_Additive(offset, target) ==
  offset + Round(target * EASE_NUM, EASE_DEN)

\* offset + (target - offset) * 0.2
Ease(offset, target) ==
  offset + Round((target - offset) * EASE_NUM, EASE_DEN)

\* out of pull range: Math.abs(newOffset) > EPSILON ? newOffset * decay : 0
SettleFar(newOffset) ==
  IF Abs(newOffset) > EPSILON THEN Round(newOffset * DECAY_NUM, DECAY_DEN)
                              ELSE 0

\* in pull range: Math.abs(newOffset) > EPSILON ? newOffset : 0
SettleNear(newOffset) ==
  IF Abs(newOffset) > EPSILON THEN newOffset ELSE 0

\* the new value of one offset of a point that is updated
NewOffset(offset, target, distance) ==
  IF ~InRange(distance) THEN SettleFar(Ease(offset, target))
                        ELSE SettleNear(Ease(offset, target))

\* the write test without the offsetY term
NeedsWrite_XOnly(offsetX, offsetY, el) ==
  Abs(offsetX - ParseFloat(OrZero(el.ox))) > EPSILON

\* the write made unconditional
NeedsWrite_Always(offsetX, offsetY, el) == TRUE

\* the condition of the "Only write to DOM if transform meaningfully changed" if
NeedsWrite(offsetX, offsetY, el) ==
  \/ Abs(offsetX - ParseFloat(OrZero(el.ox))) > EPSILON
  \/ Abs(offsetY - ParseFloat(OrZero(el.oy))) > EPSILON

\* the body of the forEach callback for the point at index i;
\* st is [pts, d, anyChange]
AnimatePoint(i, mx, my, mouseMoved, st) ==
  LET point == st.pts[i]
      dx == mx - (point.x + CELL_SIZE \div 2)
      dy == my - (point.y + CELL_SIZE \div 2)
      distance == Distance(dx, dy)
      targetX == TargetX(dx, dy, distance)
      targetY == TargetY(dx, dy, distance)
  IN IF ~NeedsUpdate(mouseMoved, point) THEN st
     ELSE
       LET offsetX == NewOffset(point.offsetX, targetX, distance)
           offsetY == NewOffset(point.offsetY, targetY, distance)
           moved == [ point EXCEPT !.offsetX = offsetX, !.offsetY = offsetY ]
           el == st.d[point.element]
       IN IF NeedsWrite(offsetX, offsetY, el)
            THEN [ pts |-> [ st.pts EXCEPT ![i] = moved ],
                   d |-> [ st.d EXCEPT ![point.element] =
                             [ el EXCEPT
                                 !.transform = << NumToString(offsetX),
                                                  NumToString(offsetY) >>,
                                 !.ox = NumToString(offsetX),
                                 !.oy = NumToString(offsetY) ] ],
                   anyChange |-> TRUE ]
            ELSE [ st EXCEPT !.pts = [ st.pts EXCEPT ![i] = moved ] ]

\* gridPoints.forEach(...)
RECURSIVE ForEachPoint(_, _, _, _, _)
ForEachPoint(i, mx, my, mouseMoved, st) ==
  IF i > Len(st.pts) THEN st
  ELSE ForEachPoint(i + 1, mx, my, mouseMoved,
                    AnimatePoint(i, mx, my, mouseMoved, st))

\* the stop condition without "&& !mouseMoved"
ShouldStop_IgnoreMove(anyChange, mouseMoved) == ~anyChange

\* the stop condition with || in place of &&
ShouldStop_Either(anyChange, mouseMoved) == ~anyChange \/ ~mouseMoved

\* "if (!anyChange && !mouseMoved)": the step stops the loop
ShouldStop(anyChange, mouseMoved) == ~anyChange /\ ~mouseMoved

\* ------------------------------------------------------------- operations
\* startAnimation without the "if (!isAnimating)" check
StartAnimation_NoCheck ==
  /\ isAnimating' = TRUE
  /\ rafId' = RequestAnimationFrame(pending, rafId)
  /\ pending' = pending \cup { rafId' }

\* function startAnimation()
StartAnimation ==
  IF ~isAnimating
    THEN /\ isAnimating' = TRUE
         /\ rafId' = RequestAnimationFrame(pending, rafId)
         /\ pending' = pending \cup { rafId' }
    ELSE UNCHANGED << isAnimating, rafId, pending >>

\* function animate(), run as the animation-frame callback with handle h
Animate(h) ==
  /\ h \in pending
  /\ LET mouseMoved == MouseMoved(mouseX, mouseY, lastMouseX, lastMouseY)
         st == ForEachPoint(1, mouseX, mouseY, mouseMoved,
                            [ pts |-> gridPoints, d |-> dom,
                              anyChange |-> FALSE ])
         rest == pending \ { h }
     IN /\ gridPoints' = st.pts
        /\ dom' = st.d
        /\ lastMouseX' = mouseX
        /\ lastMouseY' = mouseY
        /\ IF ShouldStop(st.anyChange, mouseMoved)
             THEN /\ isAnimating' = FALSE
                  /\ pending' = rest \ { rafId }
                  /\ rafId' = rafId
             ELSE /\ rafId' = RequestAnimationFrame(rest \cup { h }, rafId)
                  /\ pending' = rest \cup { rafId' }
                  /\ isAnimating' = isAnimating
  /\ hist' = [ op |-> "animate", arg |-> h, pre |-> Snapshot ]
  /\ UNCHANGED << innerWidth, innerHeight, mouseX, mouseY, children,
                  generation, nextElement, nEvents >>

\* document.addEventListener('mousemove', ...)
MouseMove(x, y) ==
  /\ nEvents' = nEvents + 1
  /\ mouseX' = x
  /\ mouseY' = y
  /\ StartAnimation
  /\ hist' = [ op |-> "mousemove", arg |-> << x, y >>, pre |-> Snapshot ]
  /\ UNCHANGED << innerWidth, innerHeight, lastMouseX, lastMouseY,
                  gridPoints, children, dom, generation, nextElement >>

\* the touchstart listener reading the last touch instead of the first
TouchStart_LastTouch(touches) ==
  /\ nEvents' = nEvents + 1
  /\ IF Len(touches) > 0
       THEN /\ mouseX' = touches[Len(touches)][1]
            /\ mouseY' = touches[Len(touches)][2]
            /\ StartAnimation
       ELSE UNCHANGED << mouseX, mouseY, isAnimating, rafId, pending >>
  /\ hist' = [ op |-> "touchstart", arg |-> touches, pre |-> Snapshot ]
  /\ UNCHANGED << innerWidth, innerHeight, lastMouseX, lastMouseY,
                  gridPoints, children, dom, generation, nextElement >>

\* the touchstart listener without the "if (touch)" check: an empty touch
\* list starts the animation
TouchStart_NoCheck(touches) ==
  /\ nEvents' = nEvents + 1
  /\ IF Len(touches) > 0
       THEN /\ mouseX' = touches[1][1]
            /\ mouseY' = touches[1][2]
       ELSE UNCHANGED << mouseX, mouseY >>
  /\ StartAnimation
  /\ hist' = [ op |-> "touchstart", arg |-> touches, pre |-> Snapshot ]
  /\ UNCHANGED << innerWidth, innerHeight, lastMouseX, lastMouseY,
                  gridPoints, children, dom, generation, nextElement >>

\* document.addEventListener('touchstart', ...)
TouchStart(touches) ==
  /\ nEvents' = nEvents + 1
  /\ IF Len(touches) > 0
       THEN /\ mouseX' = touches[1][1]
            /\ mouseY' = touches[1][2]
            /\ StartAnimation
       ELSE UNCHANGED << mouseX, mouseY, isAnimating, rafId, pending >>
  /\ hist' = [ op |-> "touchstart", arg |-> touches, pre |-> Snapshot ]
  /\ UNCHANGED << innerWidth, innerHeight, lastMouseX, lastMouseY,
                  gridPoints, children, dom, generation, nextElement >>

\* the resize listener without replaceChildren()
ReplaceChildren_Keep(st) == st

\* gridContainer.replaceChildren(); st is [pts, ch, d, n]
ReplaceChildren(st) == [ st EXCEPT !.ch = << >> ]

\* the resize listener without "gridPoints.length = 0"
ClearPoints_Keep(st) == st

\* gridPoints.length = 0
ClearPoints(st) == [ st EXCEPT !.pts = << >> ]

\* the resize listener calling startAnimation() whatever isAnimating is
Resize_AlwaysStart(w, h) ==
  /\ nEvents' = nEvents + 1
  /\ innerWidth' = w
  /\ innerHeight' = h
  /\ generation' = generation + 1
  /\ LET st0 == [ pts |-> gridPoints, ch |-> children, d |-> dom,
                  n |-> nextElement ]
         st == GenerateGrid(w, h, generation + 1,
                            ClearPoints(ReplaceChildren(st0)))
     IN /\ gridPoints' = st.pts
        /\ children' = st.ch
        /\ dom' = Live(st.d, st.ch, st.pts)
        /\ nextElement' = st.n
  /\ StartAnimation
  /\ hist' = [ op |-> "resize", arg |-> << w, h >>, pre |-> Snapshot ]
  /\ UNCHANGED << mouseX, mouseY, lastMouseX, lastMouseY >>

\* window.addEventListener('resize', ...), the viewport now being w x h
Resize(w, h) ==
  /\ nEvents' = nEvents + 1
  /\ innerWidth' = w
  /\ innerHeight' = h
  /\ generation' = generation + 1
  /\ LET st0 == [ pts |-> gridPoints, ch |-> children, d |-> dom,
                  n |-> nextElement ]
         st == GenerateGrid(w, h, generation + 1,
                            ClearPoints(ReplaceChildren(st0)))
     IN /\ gridPoints' = st.pts
        /\ children' = st.ch
        /\ dom' = Live(st.d, st.ch, st.pts)
        /\ nextElement' = st.n
  /\ IF isAnimating THEN StartAnimation
                    ELSE UNCHANGED << isAnimating, rafId, pending >>
  /\ hist' = [ op |-> "resize", arg |-> << w, h >>, pre |-> Snapshot ]
  /\ UNCHANGED << mouseX, mouseY, lastMouseX, lastMouseY >>

\* the module's top-level code: the variable initialisers and generateGrid()
InitFor(w, h) ==
  /\ innerWidth = w
  /\ innerHeight = h
  /\ mouseX = 0
  /\ mouseY = 0
  /\ lastMouseX = 0
  /\ lastMouseY = 0
  /\ isAnimating = FALSE
  /\ rafId = 0
  /\ pending = {}
  /\ generation = 1
  /\ LET st == GenerateGrid(w, h, 1, EmptyGrid)
     IN /\ gridPoints = st.pts
        /\ children = st.ch
        /\ dom = st.d
        /\ nextElement = st.n
  /\ nEvents = 0
  /\ hist = [ op |-> "init", arg |-> << w, h >>, pre |-> << >> ]

Init == \E v \in Viewports : InitFor(v[1], v[2])

Next ==
  \/ \E h \in pending : Animate(h)
  \/ nEvents < MaxEvents /\ \E p \in Pointers : MouseMove(p[1], p[2])
  \/ nEvents < MaxEvents /\ \E t \in TouchLists : TouchStart(t)
  \/ nEvents < MaxEvents /\ \E v \in Viewports : Resize(v[1], v[2])

Spec == Init /\ [][Next]_vars

\* a step of Next that is a run of animate: of the steps of Next, exactly
\* the Animate(h) steps record themselves so in hist, and they are possible
\* exactly when a callback is pending
FrameRuns ==
  \E h \in pending : hist' = [ op |-> "animate", arg |-> h, pre |-> Snapshot ]

\* the browser runs a requested animation-frame callback at the next frame
SpecFair == Spec /\ WF_hist(FrameRuns)

\* grid construction alone: startup and resizes over a range of viewports
InitGrid == \E v \in GridViewports : InitFor(v[1], v[2])

NextGrid ==
  nEvents < MaxGridEvents /\ \E v \in GridViewports : Resize(v[1], v[2])

SpecGrid == InitGrid /\ [][NextGrid]_vars

\* one marker (a 0 x 0 viewport), the pointer on its centre or far away,
\* and resizes that rebuild it: longer event sequences on a small grid
InitPull == InitFor(0, 0)

NextPull ==
  \/ \E h \in pending : Animate(h)
  \/ nEvents < MaxPullEvents /\ \E p \in PullPointers : MouseMove(p[1], p[2])
  \/ nEvents < MaxPullEvents /\ Resize(0, 0)

SpecPull == InitPull /\ [][NextPull]_vars


\* ================================================================== claims
\* what the claims say about a step or an event is stated over hist.pre,
\* the state the last operation started from, and the current state

Stepped == hist.op = "animate"

Running == isAnimating

Idle == ~isAnimating

\* the elements whose transform the last operation wrote
Written ==
  { e \in DOMAIN dom :
      e \in DOMAIN hist.pre.dom /\ dom[e].transform # hist.pre.dom[e].transform }

\* the pointer did not move, within EPSILON, between the end of the step
\* before the last operation and the start of the last operation
PointerHeld ==
  /\ Abs(hist.pre.mouseX - hist.pre.lastMouseX) * UNIT <= EPSILON
  /\ Abs(hist.pre.mouseY - hist.pre.lastMouseY) * UNIT <= EPSILON

\* C1: at most one frame step is pending; the driver is Running exactly when
\* one scheduled step is outstanding and Idle exactly when none is; a call to
\* startAnimation while Running schedules nothing.
C1_OnePendingStep ==
  /\ Cardinality(pending) <= 1
  /\ Running <=> Cardinality(pending) = 1
  /\ Idle <=> pending = {}
  /\ (hist.op \in { "mousemove", "touchstart", "resize" } /\ hist.pre.isAnimating)
       => pending = hist.pre.pending /\ rafId = hist.pre.rafId

\* a pointer event arrived while the driver was Running
C1_Witness ==
  /\ hist.op = "mousemove"
  /\ hist.pre.isAnimating
  /\ Cardinality(hist.pre.pending) = 1

\* C3: a frame step leaves the driver Idle with no step scheduled if and only
\* if it wrote no transform and the pointer was, within EPSILON, where the
\* previous step recorded it; otherwise it leaves the driver Running with
\* exactly one, newly scheduled, step.
C3_StopIffNoChange ==
  Stepped =>
    /\ (Idle /\ pending = {}) <=> (Written = {} /\ PointerHeld)
    /\ ~(Written = {} /\ PointerHeld) =>
         /\ Running
         /\ Cardinality(pending) = 1
         /\ pending \cap hist.pre.pending = {}

\* a step that stopped the driver, and it had markers to look at
C3_Witness ==
  /\ Stepped
  /\ hist.pre.isAnimating
  /\ Idle
  /\ Len(gridPoints) > 1

\* C4: a mousemove, and a touchstart with at least one touch, sets the
\* pointer to the event's (first touch's) coordinates and leaves the driver
\* Running with one step scheduled: newly scheduled when it was Idle, the
\* same step, flag and handle when it was Running.
C4_PointerEventStarts ==
  LET isMove == hist.op = "mousemove"
      isTouch == hist.op = "touchstart" /\ Len(hist.arg) > 0
      at == IF isMove THEN hist.arg ELSE hist.arg[1]
  IN (isMove \/ isTouch) =>
       /\ mouseX = at[1]
       /\ mouseY = at[2]
       /\ Running
       /\ Cardinality(pending) = 1
       /\ hist.pre.isAnimating =>
            pending = hist.pre.pending /\ rafId = hist.pre.rafId
       /\ ~hist.pre.isAnimating =>
            hist.pre.pending = {} /\ rafId \in pending

\* a touchstart with two touches at different places started the driver
C4_Witness ==
  /\ hist.op = "touchstart"
  /\ Len(hist.arg) = 2
  /\ hist.arg[1] # hist.arg[2]
  /\ ~hist.pre.isAnimating
  /\ Running

\* C7: a touchstart with no active touch leaves the pointer, the animating
\* flag, the pending step and every marker unchanged.
C7_EmptyTouchIgnored ==
  (hist.op = "touchstart" /\ Len(hist.arg) = 0) =>
    /\ mouseX = hist.pre.mouseX
    /\ mouseY = hist.pre.mouseY
    /\ lastMouseX = hist.pre.lastMouseX
    /\ lastMouseY = hist.pre.lastMouseY
    /\ isAnimating = hist.pre.isAnimating
    /\ rafId = hist.pre.rafId
    /\ pending = hist.pre.pending
    /\ gridPoints = hist.pre.gridPoints
    /\ children = hist.pre.children
    /\ dom = hist.pre.dom

\* a touchstart with no touch arrived while the driver was Idle
C7_Witness ==
  /\ hist.op = "touchstart"
  /\ Len(hist.arg) = 0
  /\ ~hist.pre.isAnimating


\* the least k with k * c >= n: the ceiling of n / c
CeilingOf(n, c) ==
  CHOOSE k \in 0..n : k * c >= n /\ (k = 0 \/ (k - 1) * c < n)

\* the grid is the row-major tiling of a w x h viewport, every marker at rest
GridBuiltFor(w, h) ==
  LET rows == CeilingOf(h, CELL_SIZE) + 1
      cols == CeilingOf(w, CELL_SIZE) + 1
  IN /\ Len(gridPoints) = rows * cols
     /\ \A row \in 0..(rows - 1) : \A col \in 0..(cols - 1) :
          LET point == gridPoints[row * cols + col + 1]
          IN /\ point.x = col * CELL_SIZE
             /\ point.y = row * CELL_SIZE
             /\ point.offsetX = 0
             /\ point.offsetY = 0
             /\ dom[point.element].left = point.x
             /\ dom[point.element].top = point.y

\* the elements of the markers of a sequence of grid points
ElementsOf(pts) == { pts[i].element : i \in DOMAIN pts }

\* C5: a resize while the driver is Running removes every old marker from
\* the grid and every old element from the root surface, builds the grid of
\* the new viewport, and leaves the driver Running with a step scheduled;
\* that step, like every step, iterates over markers of the latest build
\* whose elements are attached.
C5_ResizeWhileRunning ==
  /\ (hist.op = "resize" /\ hist.pre.isAnimating) =>
       /\ ElementsOf(gridPoints) \cap ElementsOf(hist.pre.gridPoints) = {}
       /\ Range(children) \cap Range(hist.pre.children) = {}
       /\ Range(children) \cap ElementsOf(hist.pre.gridPoints) = {}
       /\ hist.arg = << innerWidth, innerHeight >>
       /\ GridBuiltFor(innerWidth, innerHeight)
       /\ Running
       /\ Cardinality(pending) = 1
  /\ (Stepped /\ hist.pre.generation > 1) =>
       \A i \in DOMAIN hist.pre.gridPoints :
         LET e == hist.pre.gridPoints[i].element
         IN /\ hist.pre.dom[e].gen = hist.pre.generation
            /\ e \in Range(hist.pre.children)

\* a resize to another viewport size arrived while the driver was Running
\* and a marker was displaced
C5_Witness ==
  /\ hist.op = "resize"
  /\ hist.pre.isAnimating
  /\ \E i \in DOMAIN hist.pre.gridPoints : hist.pre.gridPoints[i].offsetX # 0
  /\ Len(gridPoints) # Len(hist.pre.gridPoints)

\* C6: the elements attached to the root surface are exactly the elements of
\* the markers of the grid, one per marker, without duplicates or orphans,
\* all of the latest build; and a step changes no other element or marker.
C6_OneGeneration ==
  /\ Len(children) = Len(gridPoints)
  /\ \A i \in DOMAIN gridPoints : children[i] = gridPoints[i].element
  /\ Cardinality(Range(children)) = Len(children)
  /\ \A e \in Range(children) : e \in DOMAIN dom /\ dom[e].gen = generation
  /\ DOMAIN dom = Range(children)
  /\ Stepped =>
       /\ ElementsOf(hist.pre.gridPoints) = Range(children)
       /\ \A e \in DOMAIN hist.pre.dom :
            hist.pre.dom[e].gen = generation /\ e \in Range(children)

\* a step wrote a transform in a grid that a resize had rebuilt
C6_Witness ==
  /\ Stepped
  /\ generation > 1
  /\ Written # {}

\* C10: building the grid, at startup and on every resize, yields
\* (ceil(h/c)+1) * (ceil(w/c)+1) markers, one for each (row, col), at
\* (col*c, row*c) with displacement (0,0); 1000x800 gives 17 rows of 21.
C10_GridSize ==
  (hist.op \in { "init", "resize" }) =>
    /\ hist.arg = << innerWidth, innerHeight >>
    /\ GridBuiltFor(innerWidth, innerHeight)
    /\ (innerWidth = 1000 /\ innerHeight = 800) =>
         /\ Len(gridPoints) = 357
         /\ gridPoints[357].x = 20 * CELL_SIZE
         /\ gridPoints[357].y = 16 * CELL_SIZE

\* a resize built the grid of the 1000x800 viewport from a smaller one
C10_Witness ==
  /\ hist.op = "resize"
  /\ innerWidth = 1000
  /\ innerHeight = 800
  /\ Len(hist.pre.gridPoints) < Len(gridPoints)


\* the markers the last step started from
PrePoints == hist.pre.gridPoints

\* the pointer of the current state is out of pull range of every marker
PointerFarFromAll ==
  \A i \in DOMAIN gridPoints :
    LET dx == mouseX - (gridPoints[i].x + CELL_SIZE \div 2)
        dy == mouseY - (gridPoints[i].y + CELL_SIZE \div 2)
    IN dx * dx + dy * dy >= PULL_DISTANCE * PULL_DISTANCE

\* the last-written displacement recorded on an element
LastWritten(el) ==
  << ParseFloat(OrZero(el.ox)), ParseFloat(OrZero(el.oy)) >>

\* C8, as claimed: a step with the pointer held in which every marker's
\* displacement starts within EPSILON of its last-written value on both
\* axes writes no transform.
C8_Original ==
  ( /\ Stepped
    /\ PointerHeld
    /\ \A i \in DOMAIN PrePoints :
         LET lw == LastWritten(hist.pre.dom[PrePoints[i].element])
         IN /\ Abs(PrePoints[i].offsetX - lw[1]) <= EPSILON
            /\ Abs(PrePoints[i].offsetY - lw[2]) <= EPSILON )
  => Written = {}

\* C8, amended: a step with the pointer held in which every marker's
\* displacement starts within EPSILON of zero on both axes writes no
\* transform.
C8_Amended ==
  ( /\ Stepped
    /\ PointerHeld
    /\ \A i \in DOMAIN PrePoints :
         /\ Abs(PrePoints[i].offsetX) <= EPSILON
         /\ Abs(PrePoints[i].offsetY) <= EPSILON )
  => Written = {}

\* a step ran with the pointer held in pull range of a marker while every
\* marker was within EPSILON of rest
C8_Witness ==
  /\ Stepped
  /\ PointerHeld
  /\ PrePoints # << >>
  /\ \A i \in DOMAIN PrePoints :
       /\ Abs(PrePoints[i].offsetX) <= EPSILON
       /\ Abs(PrePoints[i].offsetY) <= EPSILON
  /\ ~PointerFarFromAll

\* C9, as claimed: after a step that updates a marker, each axis of the
\* marker's displacement is exactly 0 or of magnitude at least EPSILON.
C9_Claim ==
  Stepped =>
    \A i \in DOMAIN PrePoints :
      ( \/ ~PointerHeld
        \/ Abs(PrePoints[i].offsetX) > EPSILON
        \/ Abs(PrePoints[i].offsetY) > EPSILON )
      => /\ gridPoints[i].offsetX = 0 \/ Abs(gridPoints[i].offsetX) >= EPSILON
         /\ gridPoints[i].offsetY = 0 \/ Abs(gridPoints[i].offsetY) >= EPSILON

\* C2, as claimed, in the form of its final state: once the steps have
\* brought the driver to Idle with the pointer out of pull range of every
\* marker, every marker's displacement is exactly (0, 0).
C2_Claim ==
  (Stepped /\ Idle /\ PointerFarFromAll) =>
    \A i \in DOMAIN gridPoints :
      gridPoints[i].offsetX = 0 /\ gridPoints[i].offsetY = 0


\* the largest displacement: PULL_STRENGTH * CELL_SIZE, in units
MaxPull == (UNIT * CELL_SIZE * PULL_STRENGTH_NUM) \div PULL_STRENGTH_DEN

\* n * n for |n| < 10^6, as << high, low >> digits in base 10^6
SquareOf(n) ==
  LET a == Abs(n) \div 1000
      b == Abs(n) % 1000
      mid == 2000 * a * b + b * b
  IN << a * a + mid \div 1000000, mid % 1000000 >>

\* x * x + y * y, as << high, low >> digits in base 10^6
SquaredNorm(x, y) ==
  LET sx == SquareOf(x)
      sy == SquareOf(y)
  IN << sx[1] + sy[1] + (sx[2] + sy[2]) \div 1000000,
        (sx[2] + sy[2]) % 1000000 >>

\* comparison of two numbers written in base 10^6
Less(m, n) == m[1] < n[1] \/ (m[1] = n[1] /\ m[2] < n[2])

\* the vector (x, y) is no longer than r
NormAtMost(x, y, r) == ~Less(SquaredNorm(r, 0), SquaredNorm(x, y))

\* C11: in every reachable state the displacement of every marker is bounded
\* by PULL_STRENGTH * CELL_SIZE = 20 px: |offsetX|, |offsetY| and the length
\* of the vector never exceed it.
C11_DisplacementBounded ==
  \A i \in DOMAIN gridPoints :
    /\ Abs(gridPoints[i].offsetX) <= MaxPull
    /\ Abs(gridPoints[i].offsetY) <= MaxPull
    /\ NormAtMost(gridPoints[i].offsetX, gridPoints[i].offsetY, MaxPull)

\* a marker has been pulled to more than 19 of the 20 px
C11_Witness ==
  /\ Stepped
  /\ \E i \in DOMAIN gridPoints :
       /\ gridPoints[i].offsetX > 19 * UNIT
       /\ gridPoints[i].offsetX # PrePoints[i].offsetX


\* the pointer (mx, my) is exactly on the centre of the marker
AtCentre(point, mx, my) ==
  /\ mx = point.x + CELL_SIZE \div 2
  /\ my = point.y + CELL_SIZE \div 2

\* the last step did not settle-skip the marker at index i
Updated(i) ==
  \/ ~PointerHeld
  \/ Abs(PrePoints[i].offsetX) > EPSILON
  \/ Abs(PrePoints[i].offsetY) > EPSILON

\* C12, as claimed: in a step with the pointer exactly on a marker's centre,
\* the length of the marker's displacement strictly increases and does not
\* exceed 20 px.
C12_Original ==
  Stepped =>
    \A i \in DOMAIN PrePoints :
      AtCentre(PrePoints[i], hist.pre.mouseX, hist.pre.mouseY) =>
        /\ Less(SquaredNorm(PrePoints[i].offsetX, PrePoints[i].offsetY),
                SquaredNorm(gridPoints[i].offsetX, gridPoints[i].offsetY))
        /\ NormAtMost(gridPoints[i].offsetX, gridPoints[i].offsetY, MaxPull)

\* C12, amended: in a step with the pointer exactly on a marker's centre
\* that updates the marker from rest or from a displacement (x, 0) with
\* 0 < x < 20 px, the displacement stays on that segment, its length strictly
\* increases and it does not exceed 20 px.
C12_Amended ==
  Stepped =>
    \A i \in DOMAIN PrePoints :
      ( /\ AtCentre(PrePoints[i], hist.pre.mouseX, hist.pre.mouseY)
        /\ Updated(i)
        /\ PrePoints[i].offsetY = 0
        /\ PrePoints[i].offsetX >= 0
        /\ PrePoints[i].offsetX < MaxPull )
      => /\ gridPoints[i].offsetY = 0
         /\ gridPoints[i].offsetX > PrePoints[i].offsetX
         /\ gridPoints[i].offsetX <= MaxPull

\* a step pulled a marker, already displaced by more than 10 px, further
\* toward the pointer held on its centre
C12_Witness ==
  /\ Stepped
  /\ PointerHeld
  /\ \E i \in DOMAIN PrePoints :
       /\ AtCentre(PrePoints[i], hist.pre.mouseX, hist.pre.mouseY)
       /\ PrePoints[i].offsetY = 0
       /\ PrePoints[i].offsetX > 10 * UNIT
       /\ gridPoints[i].offsetX > PrePoints[i].offsetX


\* the last step set the marker at index i to (0.2 * 20 px, 0) and wrote it
PulledToFifth(i) ==
  LET e == gridPoints[i].element
      fifth == (MaxPull * EASE_NUM) \div EASE_DEN
  IN /\ gridPoints[i].offsetX = fifth
     /\ gridPoints[i].offsetY = 0
     /\ e \in Written
     /\ dom[e].transform = << NumToString(fifth), NumToString(0) >>
     /\ LastWritten(dom[e]) = << fifth, 0 >>

\* C13, as claimed: the first step after a mousemove that placed the pointer
\* exactly on the centre of a marker at rest sets the marker's displacement
\* to (4, 0) px and writes it to the transform.
C13_Original ==
  (Stepped /\ hist.pre.op = "mousemove") =>
    \A i \in DOMAIN PrePoints :
      ( /\ AtCentre(PrePoints[i], hist.pre.mouseX, hist.pre.mouseY)
        /\ PrePoints[i].offsetX = 0
        /\ PrePoints[i].offsetY = 0 )
      => PulledToFifth(i)

\* C13, amended: the same, when the placement changed the coordinates by
\* more than EPSILON from those recorded at the previous step.
C13_Amended ==
  (Stepped /\ hist.pre.op = "mousemove" /\ ~PointerHeld) =>
    \A i \in DOMAIN PrePoints :
      ( /\ AtCentre(PrePoints[i], hist.pre.mouseX, hist.pre.mouseY)
        /\ PrePoints[i].offsetX = 0
        /\ PrePoints[i].offsetY = 0 )
      => PulledToFifth(i)

\* the pointer came back from out of range onto the centre of a marker at
\* rest, and a step ran
C13_Witness ==
  /\ Stepped
  /\ hist.pre.op = "mousemove"
  /\ hist.pre.lastMouseX = 1000
  /\ \E i \in DOMAIN PrePoints :
       /\ AtCentre(PrePoints[i], hist.pre.mouseX, hist.pre.mouseY)
       /\ PrePoints[i].offsetX = 0
       /\ PrePoints[i].offsetY = 0
       /\ gridPoints[i].offsetX > 0


\* the state one more step would produce from the current state, the pointer
\* staying where it is: [pts, d, anyChange]
OneMoreStep ==
  ForEachPoint(1, mouseX, mouseY,
               MouseMoved(mouseX, mouseY, lastMouseX, lastMouseY),
               [ pts |-> gridPoints, d |-> dom, anyChange |-> FALSE ])

\* C14, as claimed: when a step has taken the driver to Idle, one more step
\* with the same pointer position would change no marker's displacement and
\* no transform.
C14_Claim ==
  (Stepped /\ hist.pre.isAnimating /\ Idle) =>
    /\ OneMoreStep.pts = gridPoints
    /\ OneMoreStep.d = dom


\* C15: once no further event occurs, the driver reaches Idle after finitely
\* many steps and no step is pending from then on, wherever the pointer is.
C15_ReachesIdle == <>[](Idle /\ pending = {})

\* steps have brought the driver to Idle with the pointer in pull range and
\* a marker displaced by more than 1 px
C15_Witness ==
  /\ Stepped
  /\ hist.pre.isAnimating
  /\ Idle
  /\ ~PointerFarFromAll
  /\ \E i \in DOMAIN gridPoints : Abs(gridPoints[i].offsetX) > UNIT

\* the displacement a full update gives the marker at index i of the state
\* the last step started from
FullUpdate(i) ==
  LET point == PrePoints[i]
      dx == hist.pre.mouseX - (point.x + CELL_SIZE \div 2)
      dy == hist.pre.mouseY - (point.y + CELL_SIZE \div 2)
      distance == Distance(dx, dy)
  IN << NewOffset(point.offsetX, TargetX(dx, dy, distance), distance),
        NewOffset(point.offsetY, TargetY(dx, dy, distance), distance) >>

\* C16: a step that finds the pointer moved by more than EPSILON from the
\* coordinates recorded at the previous step updates every marker in full
\* and schedules another step, so a step that takes the driver to Idle found
\* the pointer where the previous step recorded it.
C16_MovedStepContinues ==
  Stepped =>
    /\ ~PointerHeld =>
         /\ Running
         /\ Cardinality(pending) = 1
         /\ hist.arg \notin pending
         /\ DOMAIN gridPoints = DOMAIN PrePoints
         /\ \A i \in DOMAIN PrePoints :
              << gridPoints[i].offsetX, gridPoints[i].offsetY >> = FullUpdate(i)
    /\ Idle => PointerHeld

\* the first step after a pointer movement found every marker at rest, wrote
\* no transform and still scheduled another step
C16_Witness ==
  /\ Stepped
  /\ hist.pre.op \in { "mousemove", "touchstart" }
  /\ ~PointerHeld
  /\ Written = {}
  /\ PrePoints # << >>
  /\ \A i \in DOMAIN PrePoints :
       PrePoints[i].offsetX = 0 /\ PrePoints[i].offsetY = 0
  /\ pending # {}

\* C17: in a step, a marker whose displacement is within EPSILON of zero on
\* both axes while the pointer is held keeps its displacement, its
\* last-written value and its transform; every other marker gets the
\* displacement eased 20% toward its target (and then decayed or snapped).
C17_SettleSkip ==
  Stepped =>
    \A i \in DOMAIN PrePoints :
      IF Updated(i)
        THEN << gridPoints[i].offsetX, gridPoints[i].offsetY >> = FullUpdate(i)
        ELSE /\ gridPoints[i] = PrePoints[i]
             /\ dom[PrePoints[i].element] = hist.pre.dom[PrePoints[i].element]

\* a step with the pointer held skipped one marker, whose target is not
\* zero, and moved another
C17_Witness ==
  /\ Stepped
  /\ PointerHeld
  /\ \E i \in DOMAIN PrePoints :
       /\ ~Updated(i)
       /\ FullUpdate(i) # << PrePoints[i].offsetX, PrePoints[i].offsetY >>
  /\ \E j \in DOMAIN PrePoints :
       /\ Updated(j)
       /\ gridPoints[j] # PrePoints[j]

\* C18: in every state each marker's displacement is within EPSILON, on both
\* axes, of the displacement last written to its element, which is (0,0)
\* for an element nothing has been written to.
C18_WrittenTracksOffset ==
  \A i \in DOMAIN gridPoints :
    LET written == LastWritten(dom[gridPoints[i].element])
    IN /\ Abs(gridPoints[i].offsetX - written[1]) <= EPSILON
       /\ Abs(gridPoints[i].offsetY - written[2]) <= EPSILON

\* a step moved a marker without a write: its displacement and its
\* last-written displacement differ on both axes
C18_Witness ==
  /\ Stepped
  /\ \E i \in DOMAIN gridPoints :
       LET written == LastWritten(dom[gridPoints[i].element])
       IN /\ gridPoints[i] # PrePoints[i]
          /\ gridPoints[i].offsetX # written[1]
          /\ gridPoints[i].offsetY # written[2]
          /\ written # << 0, 0 >>

\* the driver is Idle with no step scheduled and every marker at rest with
\* no transform written
IdleAtRest ==
  /\ Idle
  /\ pending = {}
  /\ \A i \in DOMAIN gridPoints :
       /\ gridPoints[i].offsetX = 0
       /\ gridPoints[i].offsetY = 0
       /\ dom[gridPoints[i].element].transform = Undefined

\* the last operation was a pointer update: a mousemove, or a touchstart
\* with at least one touch
PointerUpdated ==
  \/ hist.op = "mousemove"
  \/ hist.op = "touchstart" /\ hist.arg # << >>

\* C19: a resize while the driver is Idle builds the grid for the new
\* viewport with every marker at rest, schedules no step, leaves the driver
\* Idle and the pointer coordinates as they were; from then on the markers
\* stay at rest until a pointer update.
C19_IdleResize ==
  [][ /\ (hist'.op = "resize" /\ Idle) =>
           /\ IdleAtRest'
           /\ << innerWidth, innerHeight >>' = hist'.arg
           /\ GridBuiltFor(innerWidth, innerHeight)'
           /\ rafId' = rafId
           /\ << mouseX, mouseY, lastMouseX, lastMouseY >>'
                = << mouseX, mouseY, lastMouseX, lastMouseY >>
      /\ (hist.op = "resize" /\ IdleAtRest /\ ~PointerUpdated') =>
           /\ IdleAtRest'
           /\ hist'.op # "animate"
    ]_vars

\* a resize while Idle rebuilt a grid that had a displaced marker, and left
\* the pointer in pull range of a rebuilt marker
C19_Witness ==
  /\ hist.op = "resize"
  /\ ~hist.pre.isAnimating
  /\ Idle
  /\ ~PointerFarFromAll
  /\ gridPoints # << >>
  /\ \E i \in DOMAIN PrePoints : PrePoints[i].offsetX # 0

====
